---------------------------- MODULE Spec2Model ----------------------------
(***************************************************************************)
(* A model of export_static_preview.py: the scenario projection            *)
(* calculate_additional_outcomes_and_costs, its helpers, and the           *)
(* module-level preview computation (three projection runs, the savings    *)
(* and prevented series, and the indicators).                              *)
(*                                                                         *)
(* Python floats are modelled as signed fixed-point decimals: the integer  *)
(* v stands for the number v / SCALE.  Every arithmetic operation rounds   *)
(* its exact result to the nearest representable value, as IEEE arithmetic *)
(* does, and is symmetric in the sign.  Python ints (years, num_years,     *)
(* cost_per_case, the divisors 76 and 100) stay integers.  Numbers range   *)
(* over the 32-bit integers of the checker.  To keep both the small rates  *)
(* and the large amounts of money in range, money (the cost and savings    *)
(* series and their totals) is kept with MONEY representable values per    *)
(* unit and every other float with SCALE; the scenarios are projected for  *)
(* populations of a few thousand.                                          *)
(***************************************************************************)
EXTENDS Integers, Sequences, FiniteSets, TLC

(***************************************************************************)
(* Fixed-point arithmetic                                                  *)
(***************************************************************************)
\* the digits of a number are grouped in limbs of this size
Base == 1000
\* number of representable values per unit: two limbs, 6 decimal digits
SCALE == Base * Base

Abs(v) == IF v < 0 THEN -v ELSE v
Sgn(v) == IF v < 0 THEN -1 ELSE IF v > 0 THEN 1 ELSE 0

\* n / d for d > 0, rounded to the nearest integer, halves away from zero
RDiv(n, d) == Sgn(n) * ((2 * Abs(n) + d) \div (2 * d))

\* the decimal literal n / d of the source text, e.g. 1.04 is Dec(104, 100)
Dec(n, d) == RDiv(n * SCALE, d)

\* number of representable amounts of money per unit: 4 decimal digits
MONEY == 10 * Base

\* the float of a Python int
FromInt(n) == n * SCALE

\* o * n for a float o and a Python int n, the product an amount of money
MulMoney(o, n) ==
    LET per == SCALE \div MONEY
        whole == Abs(o) \div per
        part == Abs(o) % per
    IN  Sgn(o) * Sgn(n) * (whole * Abs(n) + (2 * part * Abs(n) + per) \div (2 * per))

\* a * b for a, b >= 0, by long multiplication over the limbs so that no
\* intermediate product leaves the range of the integers
MulAbs(a, b) ==
    LET a2 == a \div SCALE
        a1 == (a % SCALE) \div Base
        a0 == a % Base
        b2 == b \div SCALE
        b1 == (b % SCALE) \div Base
        b0 == b % Base
        low == (a1 * b0 + a0 * b1) * Base + a0 * b0
    IN  a2 * b2 * SCALE + (a2 * b1 + a1 * b2) * Base
        + (a2 * b0 + a1 * b1 + a0 * b2) + ((low + SCALE \div 2) \div SCALE)
Mul(a, b) == Sgn(a) * Sgn(b) * MulAbs(Abs(a), Abs(b))

\* <<quotient, remainder>> of r * m by b, for 0 <= r < b and m >= 0, by
\* doubling
RECURSIVE ScaledQuotient(_, _, _)
ScaledQuotient(r, m, b) ==
    IF m = 0 THEN <<0, 0>>
    ELSE LET half == ScaledQuotient(r, m \div 2, b)
             q2 == 2 * half[1] + (2 * half[2]) \div b
             r2 == (2 * half[2]) % b
         IN  IF m % 2 = 0 THEN <<q2, r2>>
             ELSE <<q2 + (r2 + r) \div b, (r2 + r) % b>>

\* a / b for a >= 0, b > 0
DivAbs(a, b) ==
    LET frac == ScaledQuotient(a % b, SCALE, b)
    IN  (a \div b) * SCALE + frac[1] + (IF 2 * frac[2] >= b THEN 1 ELSE 0)
Div(a, b) == Sgn(a) * Sgn(b) * DivAbs(Abs(a), Abs(b))

\* x ** n for a Python int n >= 0
RECURSIVE PowInt(_, _)
PowInt(x, n) == IF n <= 0 THEN SCALE ELSE Mul(PowInt(x, n - 1), x)

\* natural logarithm of x > 0: 2 * (z + z^3/3 + z^5/5 + z^7/7 + z^9/9), z = (x-1)/(x+1)
Ln(x) ==
    LET z  == Div(x - SCALE, x + SCALE)
        z2 == Mul(z, z)
        z3 == Mul(z, z2)
        z5 == Mul(z3, z2)
        z7 == Mul(z5, z2)
        z9 == Mul(z7, z2)
    IN  2 * (z + RDiv(z3, 3) + RDiv(z5, 5) + RDiv(z7, 7) + RDiv(z9, 9))

\* e ** y by its power series; term is y^(k-1)/(k-1)!
RECURSIVE ExpSeries(_, _, _)
ExpSeries(y, term, k) ==
    IF term = 0 \/ k > 16 THEN 0
    ELSE term + ExpSeries(y, RDiv(Mul(term, y), k), k + 1)
Exp(y) == ExpSeries(y, SCALE, 1)

\* x ** t for floats x > 0 and t (the float power of line 99): exactly 1.0 when
\* t is 0.0 or x is 1.0, and exp(t * ln x) otherwise
Pow(x, t) == IF t = 0 \/ x = SCALE THEN SCALE ELSE Exp(Mul(t, Ln(x)))

\* round(x) of a float: the nearest int, halves to the even one
Round0(x) ==
    LET a == Abs(x)
        q == a \div SCALE
        r == a % SCALE
        up == (2 * r > SCALE) \/ (2 * r = SCALE /\ q % 2 = 1)
    IN  Sgn(x) * (IF up THEN q + 1 ELSE q)

\* round(x, 2) of an amount of money: the nearest multiple of 0.01, halves to
\* the even one
Round2(x) ==
    LET u == MONEY \div 100
        a == Abs(x)
        q == a \div u
        r == a % u
        up == (2 * r > u) \/ (2 * r = u /\ q % 2 = 1)
    IN  Sgn(x) * u * (IF up THEN q + 1 ELSE q)

RECURSIVE Sum(_)
Sum(s) == IF s = <<>> THEN 0 ELSE Head(s) + Sum(Tail(s))


Min(a, b) == IF a <= b THEN a ELSE b

\* the positions of a list built over range(n): none when n <= 0
Positions(n) == 1..(IF n > 0 THEN n ELSE 0)

(***************************************************************************)
(* State                                                                   *)
(***************************************************************************)
VARIABLES
    mnch_outcomes,             \* outcome name -> risk profile
    rcp_scenarios,             \* scenario name -> temperature increase by 2100
    population_growth_rates,   \* curve name -> annual growth rate
    pregnancy_growth_rates,    \* curve name -> growth rate of the pregnancy rate
    call,                      \* arguments of the latest projection call
    result,                    \* what that call raised or returned
    DEFAULTS,                  \* the scenario the module-level preview runs
    preview,                   \* the module-level names the preview binds
    history                    \* the logged calls, oldest first: (arguments, outcome)

tables == <<mnch_outcomes, rcp_scenarios, population_growth_rates, pregnancy_growth_rates>>
vars == <<mnch_outcomes, rcp_scenarios, population_growth_rates, pregnancy_growth_rates,
          call, result, DEFAULTS, preview, history>>

(***************************************************************************)
(* Model inputs (lines 16-57)                                              *)
(***************************************************************************)
Profile(or, rate, cost, lo, hi) ==
    [odds_ratio |-> Dec(or, 100), current_rate |-> Dec(rate, 1000),
     cost_per_case |-> cost, ci_lower |-> Dec(lo, 100), ci_upper |-> Dec(hi, 100)]

mnch_outcomes_literal ==
    ("Gestational Diabetes"           :> Profile(107,  50,  2000, 101, 154)) @@
    ("Hypertension during Pregnancy"  :> Profile(112, 100,  1500, 103, 121)) @@
    ("Maternal Admission"             :> Profile(101,  20,  1000, 100, 103)) @@
    ("Infections"                     :> Profile(129,  20,   800, 105, 158)) @@
    ("Prelabour Rupture of Membranes" :> Profile(108,  20,  1200, 107, 109)) @@
    ("Antenatal Bleeding"             :> Profile(116,   5,  2500, 113, 140)) @@
    ("Cardiovascular Event"           :> Profile(111,  10,  3000, 106, 115)) @@
    ("Stillbirth"                     :> Profile(114,   5,  5000,  99, 132)) @@
    ("Congenital Anomalies"           :> Profile(113,  20, 10000,  99, 185)) @@
    ("Spontaneous Abortion"           :> Profile(131,  10,  5000,  99, 330)) @@
    ("Non-reassuring Fetal Status"    :> Profile(121,  20,   800, 112, 132)) @@
    ("Composite Outcome"              :> Profile(142, 100,  2000, 100, 203)) @@
    ("Preterm Birth"                  :> Profile(104, 100, 32000, 103, 106)) @@
    ("Low Birth Weight"               :> Profile(113,  80,   800, 102, 126)) @@
    ("Small for Gestational Age"      :> Profile(110,  20,   800, 102, 118)) @@
    ("Neonatal Admission"             :> Profile(122,  20,  1500, 102, 143)) @@
    ("Neonatal Morbidity"             :> Profile(104,  20,   800, 103, 106)) @@
    ("Obstetric Complication"         :> Profile(105, 100,  1500, 103, 106))

rcp_scenarios_literal ==
    ("RCP 2.6" :> Dec(15, 10)) @@ ("RCP 4.5" :> Dec(24, 10)) @@
    ("RCP 6.0" :> Dec(30, 10)) @@ ("RCP 8.5" :> Dec(43, 10))

population_growth_rates_literal ==
    ("Low Growth" :> Dec(1, 100)) @@ ("Medium Growth" :> Dec(2, 100)) @@
    ("High Growth" :> Dec(3, 100))

pregnancy_growth_rates_literal ==
    ("High Reduction" :> Dec(-15, 100)) @@ ("Medium Reduction" :> Dec(-10, 100)) @@
    ("Low Reduction" :> Dec(-5, 100)) @@ ("Low Growth" :> Dec(1, 100)) @@
    ("Medium Growth" :> Dec(2, 100)) @@ ("High Growth" :> Dec(3, 100))

(***************************************************************************)
(* Helpers (lines 60-69, 113-114)                                          *)
(***************************************************************************)
\* [initial_population * ((1 + growth_rate) ** year) for year in range(num_years)]
calculate_population_growth(initial_population, growth_rate, num_years) ==
    [i \in Positions(num_years) |-> Mul(initial_population, PowInt(SCALE + growth_rate, i - 1))]

\* [pop * pregnancy_rate for pop in population]
calculate_pregnancies(population, pregnancy_rate) ==
    [i \in 1..Len(population) |-> Mul(population[i], pregnancy_rate)]

\* the year anchoring the temperature ramp: the literal 2024 of line 69
\* (faulty variant: a ramp that starts at the first requested year)
RampAnchorAtStart(start_year) == start_year
RampAnchor(start_year) == 2024

\* [annual_increase * (year - 2024) for year in range(start_year, end_year + 1)]
calculate_temperature_increase_per_year(temp_increase_2100, start_year, end_year) ==
    LET total_years == 2100 - 2024
        annual_increase == RDiv(temp_increase_2100, total_years)
    IN  [i \in Positions(end_year - start_year + 1) |->
            annual_increase * ((start_year + i - 1) - RampAnchor(start_year))]

\* (odds_ratio - 1) / odds_ratio
calculate_attributable_fraction(odds_ratio) == Div(odds_ratio - SCALE, odds_ratio)

\* [a - b for a, b in zip(as, bs)]: zip stops at the shorter list
ZipSub(as, bs) == [i \in 1..Min(Len(as), Len(bs)) |-> as[i] - bs[i]]

\* [a * b for a, b in zip(as, bs)]
ZipMul(as, bs) == [i \in 1..Min(Len(as), Len(bs)) |-> Mul(as[i], bs[i])]

\* [a * f for a in as] for a float f
MapMul(as, f) == [i \in 1..Len(as) |-> Mul(as[i], f)]

\* [a * n for a in as] for the Python int n = cost_per_case
MapCost(as, n) == [i \in 1..Len(as) |-> MulMoney(as[i], n)]

(***************************************************************************)
(* calculate_additional_outcomes_and_costs (lines 71-111)                  *)
(***************************************************************************)
\* the names of the list-valued locals the function binds, in order
SeriesLocals ==
    {"selected_years", "population_growth_selected", "pregnancies", "baseline_outcomes",
     "temperature_increase_per_year", "projected_rates", "projected_outcomes",
     "additional_outcomes", "effective_additional_outcomes",
     "effective_additional_outcomes_lower", "effective_additional_outcomes_upper",
     "costs", "costs_lower", "costs_upper"}

\* the subscriptions of lines 81-88 in order: the first key that is missing from
\* its dict, as a one-element sequence, or <<>> when every subscription succeeds
FirstMissingKey(r) ==
    IF r.outcome \notin DOMAIN mnch_outcomes THEN <<r.outcome>>
    ELSE IF r.rcp_scenario \notin DOMAIN rcp_scenarios THEN <<r.rcp_scenario>>
    ELSE IF r.population_growth_curve \notin DOMAIN population_growth_rates
         THEN <<r.population_growth_curve>>
    ELSE IF r.pregnancy_growth_curve \notin DOMAIN pregnancy_growth_rates
         THEN <<r.pregnancy_growth_curve>>
    ELSE <<>>

\* a dict subscription with a missing key raises KeyError(key): the call ends
\* there, nothing is returned and no list has been built
\* (faulty variant: a missing key silently yields empty series)
ReturnZeroedProfile(key) ==
    [status |-> "returned", raised |-> <<>>,
     ret |-> << <<>>, <<>>, <<>>, <<>>, <<>>, <<>>, <<>>, <<>> >>,
     computed |-> SeriesLocals, temperature |-> <<>>]
RaiseKeyError(key) ==
    [status |-> "KeyError", raised |-> <<key>>, ret |-> <<>>,
     computed |-> {}, temperature |-> <<>>]

\* list(range(start_year, end_year + 1))
\* (faulty variant: range(start_year, end_year), one year short)
selected_years_short(start_year, end_year) ==
    [i \in Positions(end_year - start_year) |-> start_year + i - 1]
selected_years(start_year, end_year) ==
    [i \in Positions(end_year - start_year + 1) |-> start_year + i - 1]

\* (1 - adaptation_effectiveness / 100), adaptation_effectiveness a Python number
\* (faulty variant: adaptation_effectiveness / 100, the share not removed)
AdaptationFactorNotComplemented(adaptation_effectiveness) ==
    RDiv(adaptation_effectiveness * SCALE, 100)
AdaptationFactor(adaptation_effectiveness) ==
    SCALE - RDiv(adaptation_effectiveness * SCALE, 100)

\* o * (1 - adaptation_effectiveness / 100) * ci / odds_ratio, left to right
\* (faulty variant: * odds_ratio / ci)
BoundScaleInverted(o, factor, ci, odds_ratio) == Div(Mul(Mul(o, factor), odds_ratio), ci)
BoundScale(o, factor, ci, odds_ratio) == Div(Mul(Mul(o, factor), ci), odds_ratio)

\* lines 107-111: the cost series and the returned tuple
ReturnSeries(selected_years_, effective_additional_outcomes, additional_outcomes, effective_additional_outcomes_lower, effective_additional_outcomes_upper, cost_per_case, temperature_increase_per_year) ==
    [status |-> "returned", raised |-> <<>>,
     ret |-> <<selected_years_,
               effective_additional_outcomes,
               MapCost(effective_additional_outcomes, cost_per_case),
               additional_outcomes,
               effective_additional_outcomes_lower,
               effective_additional_outcomes_upper,
               MapCost(effective_additional_outcomes_lower, cost_per_case),
               MapCost(effective_additional_outcomes_upper, cost_per_case)>>,
     computed |-> SeriesLocals,
     temperature |-> temperature_increase_per_year]

\* lines 103-105: the adaptation-adjusted series and its bounds
ApplyAdaptation(selected_years_, additional_outcomes, adaptation_effectiveness, ci_lower, ci_upper, odds_ratio, cost_per_case, temperature_increase_per_year) ==
    ReturnSeries(selected_years_,
        MapMul(additional_outcomes, AdaptationFactor(adaptation_effectiveness)),
        additional_outcomes,
        [i \in 1..Len(additional_outcomes) |->
            BoundScale(additional_outcomes[i], AdaptationFactor(adaptation_effectiveness),
                       ci_lower, odds_ratio)],
        [i \in 1..Len(additional_outcomes) |->
            BoundScale(additional_outcomes[i], AdaptationFactor(adaptation_effectiveness),
                       ci_upper, odds_ratio)],
        cost_per_case, temperature_increase_per_year)

\* lines 99-102: the excess of the projected over the baseline outcomes
ExcessOutcomes(pregnancies, temperature_increase_per_year, current_rate, odds_ratio) ==
    ZipSub(ZipMul([i \in 1..Len(temperature_increase_per_year) |->
                      Mul(current_rate, Pow(odds_ratio, temperature_increase_per_year[i]))],
                  pregnancies),
           MapMul(pregnancies, current_rate))

\* lines 98-111, given the pregnancies and the temperature series
ProjectFrom(r, pregnancies, temperature_increase_per_year) ==
    ApplyAdaptation(
        selected_years(r.time_period[1], r.time_period[2]),
        ExcessOutcomes(pregnancies, temperature_increase_per_year,
                       mnch_outcomes[r.outcome].current_rate,
                       mnch_outcomes[r.outcome].odds_ratio),
        r.adaptation_effectiveness,
        mnch_outcomes[r.outcome].ci_lower, mnch_outcomes[r.outcome].ci_upper,
        mnch_outcomes[r.outcome].odds_ratio, mnch_outcomes[r.outcome].cost_per_case,
        temperature_increase_per_year)

\* the function: lines 81-88 raise on the first missing key, lines 90-98 build
\* the population, pregnancy and temperature series
calculate_additional_outcomes_and_costs(r) ==
    IF FirstMissingKey(r) # <<>> THEN RaiseKeyError(FirstMissingKey(r)[1])
    ELSE ProjectFrom(r,
            calculate_pregnancies(
                calculate_population_growth(
                    FromInt(r.current_population),
                    population_growth_rates[r.population_growth_curve],
                    r.time_period[2] - r.time_period[1] + 1),
                Mul(r.initial_pregnancy_rate,
                    SCALE + pregnancy_growth_rates[r.pregnancy_growth_curve])),
            calculate_temperature_increase_per_year(
                rcp_scenarios[r.rcp_scenario], r.time_period[1], r.time_period[2]))

\* the module's dicts after a call: the function only reads them
\* (faulty variant: the call scales the outcome's current_rate in place)
GlobalsAfterCallAliased(r) ==
    IF r.outcome \in DOMAIN mnch_outcomes
    THEN <<[mnch_outcomes EXCEPT ![r.outcome].current_rate =
                Mul(@, mnch_outcomes[r.outcome].odds_ratio)],
           rcp_scenarios, population_growth_rates, pregnancy_growth_rates>>
    ELSE tables
GlobalsAfterCall(r) == tables

(***************************************************************************)
(* Module-level preview computation (lines 117-163, 178)                   *)
(***************************************************************************)
\* the eight arguments of a call (lines 72-79), by name
Request(outcome, rcp_scenario, population_growth_curve, pregnancy_growth_curve, time_period, current_population, initial_pregnancy_rate, adaptation_effectiveness) ==
    [outcome |-> outcome, rcp_scenario |-> rcp_scenario,
     population_growth_curve |-> population_growth_curve,
     pregnancy_growth_curve |-> pregnancy_growth_curve,
     time_period |-> time_period, current_population |-> current_population,
     initial_pregnancy_rate |-> initial_pregnancy_rate,
     adaptation_effectiveness |-> adaptation_effectiveness]

\* DEFAULTS of lines 117-126, for a population of 1800: the shipped
\* current_population of 7_000_000_000 is beyond the model's number range
DEFAULTS_literal ==
    Request("Preterm Birth", "RCP 2.6", "Medium Growth", "Medium Growth",
            <<2024, 2030>>, 1800, Dec(2, 100), 50)

\* the arguments of the worst-case run (lines 141-143)
WorstCaseRequest(d) ==
    [d EXCEPT !.rcp_scenario = "RCP 8.5", !.adaptation_effectiveness = 0]

\* the arguments of the zero-adaptation run (lines 144-146)
ZeroAdaptationRequest(d) == [d EXCEPT !.adaptation_effectiveness = 0]

\* mitigation_savings = [w - c for w, c in zip(worst_costs, costs)]
MitigationSavingsOf(selected, worst) == ZipSub(worst.ret[3], selected.ret[3])

\* adaptation_savings = [z - c for z, c in zip(zero_adapt_costs, costs)]
AdaptationSavingsOf(selected, zero) == ZipSub(zero.ret[3], selected.ret[3])

\* mitigation_prevented = [w - s for w, s in zip(worst_add, eff_add_outcomes)]
\* (faulty variant: subtracts the selected run's uncapped add_outcomes)
MitigationPreventedUncapped(selected, worst) == ZipSub(worst.ret[4], selected.ret[4])
MitigationPreventedOf(selected, worst) == ZipSub(worst.ret[4], selected.ret[2])

\* adaptation_prevented = [z - s for z, s in zip(zero_adapt_outcomes, eff_add_outcomes)]
AdaptationPreventedOf(selected, zero) == ZipSub(zero.ret[2], selected.ret[2])

\* int(round(sum(series)))
RoundedCount(series) == Round0(Sum(series))

\* round(sum(series), 2)
\* (faulty variant: sum(series), not rounded)
MoneyUnrounded(series) == Sum(series)
RoundedMoney(series) == Round2(Sum(series))

\* the outcomes of the three calls of lines 129-146: selected, worst case,
\* zero adaptation
PreviewRuns(d) ==
    [k \in 1..3 |->
        calculate_additional_outcomes_and_costs(
            IF k = 1 THEN d
            ELSE IF k = 2 THEN WorstCaseRequest(d)
            ELSE ZeroAdaptationRequest(d))]

\* the arguments of the calls the script makes: all three, or only the first
\* when it raises
PreviewRequests(d) ==
    IF FirstMissingKey(d) # <<>> THEN <<d>>
    ELSE <<d, WorstCaseRequest(d), ZeroAdaptationRequest(d)>>

\* the names bound at module level once the script has run to line 163 (and
\* temp_series of line 178) with DEFAULTS = d, given the outcomes of its calls;
\* a KeyError in the first call ends the script there
PreviewNames(d, runs) ==
    IF runs[1].status = "KeyError"
    THEN [status |-> "KeyError", raised |-> runs[1].raised]
    ELSE [status |-> "done", raised |-> <<>>,
          sy |-> runs[1].ret[1], eff_add_outcomes |-> runs[1].ret[2],
          costs |-> runs[1].ret[3], add_outcomes |-> runs[1].ret[4],
          eff_low |-> runs[1].ret[5], eff_up |-> runs[1].ret[6],
          cost_low |-> runs[1].ret[7], cost_up |-> runs[1].ret[8],
          worst_eff_add |-> runs[2].ret[2], worst_costs |-> runs[2].ret[3],
          worst_add |-> runs[2].ret[4],
          zero_adapt_outcomes |-> runs[3].ret[2], zero_adapt_costs |-> runs[3].ret[3],
          mitigation_savings |-> MitigationSavingsOf(runs[1], runs[2]),
          adaptation_savings |-> AdaptationSavingsOf(runs[1], runs[3]),
          mitigation_prevented |-> MitigationPreventedOf(runs[1], runs[2]),
          adaptation_prevented |-> AdaptationPreventedOf(runs[1], runs[3]),
          odds_ratio |-> mnch_outcomes[d.outcome].odds_ratio,
          current_rate |-> mnch_outcomes[d.outcome].current_rate,
          attrib_frac |->
              calculate_attributable_fraction(mnch_outcomes[d.outcome].odds_ratio),
          total_additional_outcomes |-> RoundedCount(runs[1].ret[2]),
          total_cost |-> RoundedMoney(runs[1].ret[3]),
          total_mitigation_savings |->
              RoundedMoney(MitigationSavingsOf(runs[1], runs[2])),
          total_adaptation_savings |->
              RoundedMoney(AdaptationSavingsOf(runs[1], runs[3])),
          total_mitigation_prevented |->
              RoundedCount(MitigationPreventedOf(runs[1], runs[2])),
          total_adaptation_prevented |->
              RoundedCount(AdaptationPreventedOf(runs[1], runs[3])),
          temp_series |->
              calculate_temperature_increase_per_year(
                  rcp_scenarios[d.rcp_scenario], d.time_period[1], d.time_period[2])]

(***************************************************************************)
(* Inputs                                                                  *)
(***************************************************************************)
\* longest year range a request asks for
MaxSpan == 3
\* how many years before and after 2024 a range may start
YearsBefore == 1
YearsAfter == 1
\* how many calls the log keeps
MaxCalls == 4

OutcomeInputs == DOMAIN mnch_outcomes_literal \cup {"Not A Real Outcome"}
ScenarioInputs == {"RCP 2.6", "RCP 8.5", "RCP 7.0"}
PopulationCurveInputs == {"Medium Growth", "High Reduction"}
PregnancyCurveInputs == {"Medium Growth", "High Reduction", "No Change"}
\* ranges of -1, 0, 1, ..., MaxSpan years
PeriodInputs ==
    {<<s, s + n - 1>> : s \in (2024 - YearsBefore)..(2024 + YearsAfter), n \in -1..MaxSpan}
AdaptationInputs == {0, 30, 50, 100, 150}

Requests ==
    {DEFAULTS_literal} \cup
    {Request(o, c, pg, pr, tp, 1800, Dec(2, 100), a) :
        o \in OutcomeInputs, c \in ScenarioInputs, pg \in PopulationCurveInputs,
        pr \in PregnancyCurveInputs, tp \in PeriodInputs, a \in AdaptationInputs}

\* the configurations the script is run with: the shipped one, and a few
\* outcomes with known growth curves and a low or a high pregnancy rate
DefaultsInputs ==
    {DEFAULTS_literal} \cup
    {Request(o, c, "Medium Growth", pr, tp, 1800, rate, a) :
        o \in {"Preterm Birth", "Composite Outcome", "Not A Real Outcome"},
        c \in ScenarioInputs, pr \in {"Medium Growth", "High Reduction"},
        tp \in PeriodInputs, rate \in {Dec(2, 100), Dec(50, 100)},
        a \in AdaptationInputs}

\* the few requests whose repeated calls are logged
LoggedRequests ==
    {Request(o, "RCP 2.6", "Medium Growth", "Medium Growth", <<2024, 2023 + MaxSpan>>,
             1800, Dec(2, 100), a) :
        o \in {"Preterm Birth", "Not A Real Outcome"}, a \in {0, 50}}

(***************************************************************************)
(* Specifications                                                          *)
(***************************************************************************)
IdleResult ==
    [status |-> "idle", raised |-> <<>>, ret |-> <<>>, computed |-> {},
     temperature |-> <<>>]
IdlePreview == [status |-> "idle", raised |-> <<>>]

\* the module as loaded: the dicts hold their literals
Loaded ==
    /\ mnch_outcomes = mnch_outcomes_literal
    /\ rcp_scenarios = rcp_scenarios_literal
    /\ population_growth_rates = population_growth_rates_literal
    /\ pregnancy_growth_rates = pregnancy_growth_rates_literal
    /\ result = IdleResult
    /\ preview = IdlePreview
    /\ history = <<>>

\* a caller is about to call the projection with some arguments
Init == Loaded /\ call \in Requests /\ DEFAULTS = DEFAULTS_literal

\* the script is about to run with some DEFAULTS
InitPreview == Loaded /\ call = DEFAULTS_literal /\ DEFAULTS \in DefaultsInputs

\* calls are logged from the shipped configuration on
InitHistory == Loaded /\ call = DEFAULTS_literal /\ DEFAULTS = DEFAULTS_literal

TablesBecome(t) ==
    /\ mnch_outcomes' = t[1]
    /\ rcp_scenarios' = t[2]
    /\ population_growth_rates' = t[3]
    /\ pregnancy_growth_rates' = t[4]

\* one call of calculate_additional_outcomes_and_costs
Call(r) ==
    /\ call' = r
    /\ result' = calculate_additional_outcomes_and_costs(r)
    /\ TablesBecome(GlobalsAfterCall(r))
    /\ UNCHANGED <<DEFAULTS, preview>>

\* one run of the script's module-level computation (lines 129-163 and 178),
\* runs being the outcomes of its three calls
Run(d, runs) ==
    /\ DEFAULTS' = d
    /\ preview' = PreviewNames(d, runs)
    /\ TablesBecome(GlobalsAfterCall(d))
    /\ UNCHANGED <<call, result>>

\* the pending call is made
Project == result = IdleResult /\ Call(call) /\ UNCHANGED history

\* the script runs with the DEFAULTS it was given
Preview ==
    /\ preview = IdlePreview
    /\ \E runs \in {PreviewRuns(DEFAULTS)} : Run(DEFAULTS, runs)
    /\ UNCHANGED history

\* any number of calls, in any order, each one logged
ProjectLogged ==
    \E r \in LoggedRequests :
        /\ Len(history) < MaxCalls
        /\ Call(r)
        /\ history' = Append(history, <<r, result'>>)

\* any number of runs of the script, its calls logged in the order it makes them
PreviewLogged ==
    \E d \in LoggedRequests :
        /\ Len(history) + Len(PreviewRequests(d)) <= MaxCalls
        /\ \E runs \in {PreviewRuns(d)} :
              /\ Run(d, runs)
              /\ history' = history \o
                     [k \in 1..Len(PreviewRequests(d)) |->
                         <<PreviewRequests(d)[k], runs[k]>>]

Next == Project
Spec == Init /\ [][Next]_vars

NextPreview == Preview
SpecPreview == InitPreview /\ [][NextPreview]_vars

NextHistory == ProjectLogged \/ PreviewLogged
SpecHistory == InitHistory /\ [][NextHistory]_vars

(***************************************************************************)
(* Properties                                                              *)
(***************************************************************************)
\* the four names of a request are keys of the shipped dicts
KnownKeys(r) ==
    /\ r.outcome \in DOMAIN mnch_outcomes_literal
    /\ r.rcp_scenario \in DOMAIN rcp_scenarios_literal
    /\ r.population_growth_curve \in DOMAIN population_growth_rates_literal
    /\ r.pregnancy_growth_curve \in DOMAIN pregnancy_growth_rates_literal

Called == result.status # "idle"
Returned == result.status = "returned"
years == result.ret[1]
StartYear == call.time_period[1]
EndYear == call.time_period[2]

\* the pending call with another adaptation effectiveness, everything else fixed
WithAdaptation(a) ==
    calculate_additional_outcomes_and_costs([call EXCEPT !.adaptation_effectiveness = a])

\* C1: a call naming an outcome, scenario or growth curve that is not a key of
\* its table raises KeyError for one of the unknown names, returns nothing (in
\* particular no zeroed or default series) and has built no list by then.
C1_UnknownKeyRaises ==
    (Called /\ ~KnownKeys(call)) =>
        /\ result.status = "KeyError"
        /\ result.ret = <<>>
        /\ result.computed = {}
        /\ Len(result.raised) = 1
        /\ result.raised[1] \in {call.outcome, call.rcp_scenario,
                                 call.population_growth_curve,
                                 call.pregnancy_growth_curve}
        /\ ~KnownKeys([call EXCEPT !.outcome = result.raised[1],
                                   !.rcp_scenario = result.raised[1],
                                   !.population_growth_curve = result.raised[1],
                                   !.pregnancy_growth_curve = result.raised[1]])

\* C1 witness: a known outcome and scenario with an unknown pregnancy curve
\* has been called and raised
C1_Witness ==
    /\ result.status = "KeyError"
    /\ call.outcome = "Preterm Birth"
    /\ call.rcp_scenario = "RCP 2.6"
    /\ call.population_growth_curve = "Medium Growth"
    /\ call.pregnancy_growth_curve = "No Change"
    /\ result.raised = <<"No Change">>

\* C2 (as claimed): a call with known names and end_year < start_year fails
\* with InvalidRangeError and returns nothing.
C2_InvalidRangeRaises ==
    (Called /\ KnownKeys(call) /\ EndYear < StartYear) =>
        /\ result.status = "InvalidRangeError"
        /\ result.ret = <<>>

\* C4: a call with known names and start_year <= end_year returns; its years
\* are start_year, start_year + 1, ..., end_year, and the seven other returned
\* series are as long as years.
C4_YearsContiguous ==
    (Called /\ KnownKeys(call) /\ StartYear <= EndYear) =>
        /\ Returned
        /\ Len(result.ret) = 8
        /\ Len(years) = EndYear - StartYear + 1
        /\ \A i \in 1..Len(years) : years[i] = StartYear + i - 1
        /\ years[Len(years)] = EndYear
        /\ \A k \in 2..8 : Len(result.ret[k]) = Len(years)

\* C4 witness: a range of MaxSpan years starting before 2024 was projected
C4_Witness ==
    /\ Returned
    /\ StartYear < 2024
    /\ EndYear - StartYear + 1 = MaxSpan
    /\ Len(years) = MaxSpan

\* C5: with every other argument fixed, raising adaptation_effectiveness within
\* [0, 100] never increases |effective[i]|; at 0 effective is the uncapped
\* additional_outcomes; at 100 effective, its bounds and the three cost series
\* are exactly zero.
C5_AdaptationMonotone ==
    (Returned /\ call.adaptation_effectiveness \in 0..100) =>
        /\ \A a2 \in {a \in AdaptationInputs : call.adaptation_effectiveness <= a /\ a <= 100} :
               LET raised == WithAdaptation(a2).ret[2]
               IN  \A i \in 1..Len(years) : Abs(raised[i]) <= Abs(result.ret[2][i])
        /\ call.adaptation_effectiveness = 0 => result.ret[2] = result.ret[4]
        /\ call.adaptation_effectiveness = 100 =>
               \A i \in 1..Len(years) :
                   \A k \in {2, 3, 5, 6, 7, 8} : result.ret[k][i] = 0

\* C5 witness: a year whose nonzero excess shrinks strictly from 30 to 50 and
\* is cancelled at 100
C5_Witness ==
    /\ Returned
    /\ call.adaptation_effectiveness = 30
    /\ \E i \in 1..Len(years) :
           /\ result.ret[4][i] # 0
           /\ Abs(WithAdaptation(50).ret[2][i]) < Abs(result.ret[2][i])
           /\ WithAdaptation(100).ret[2][i] = 0
           /\ WithAdaptation(100).ret[3][i] = 0
           /\ WithAdaptation(0).ret[2][i] = result.ret[4][i]

\* C6: every shipped profile has ci_lower <= odds_ratio <= ci_upper, and in
\* every year with effective >= 0 the lower and upper series bracket effective
\* and the lower and upper costs bracket the cost.
C6_BoundOrdering ==
    /\ \A o \in DOMAIN mnch_outcomes :
           /\ mnch_outcomes[o].ci_lower <= mnch_outcomes[o].odds_ratio
           /\ mnch_outcomes[o].odds_ratio <= mnch_outcomes[o].ci_upper
           /\ mnch_outcomes[o].cost_per_case >= 0
    /\ Returned =>
           \A i \in 1..Len(years) :
               result.ret[2][i] >= 0 =>
                   /\ result.ret[5][i] <= result.ret[2][i]
                   /\ result.ret[2][i] <= result.ret[6][i]
                   /\ result.ret[7][i] <= result.ret[3][i]
                   /\ result.ret[3][i] <= result.ret[8][i]

\* C6 witness: a year with a positive effective value strictly inside its bounds
C6_Witness ==
    /\ Returned
    /\ \E i \in 1..Len(years) :
           /\ result.ret[2][i] > 0
           /\ result.ret[5][i] < result.ret[2][i]
           /\ result.ret[2][i] < result.ret[6][i]
           /\ result.ret[7][i] < result.ret[3][i]
           /\ result.ret[3][i] < result.ret[8][i]

\* C7: the temperature increase of calendar year y is (temp2100 / 76) * (y - 2024)
\* whatever start_year is, which is temp2100 * (y - 2024) / 76 up to the rounding
\* of the quotient; year 2024 gets 0 and all its returned values are 0; every
\* year before 2024 gets a negative increase.
C7_RampAnchoredAt2024 ==
    Returned =>
        /\ Len(result.temperature) = Len(years)
        /\ \A i \in 1..Len(years) :
               LET y == years[i]
                   t == result.temperature[i]
                   temp2100 == rcp_scenarios_literal[call.rcp_scenario]
               IN  /\ t = RDiv(temp2100, 76) * (y - 2024)
                   /\ Abs(76 * t - temp2100 * (y - 2024)) <= 38 * Abs(y - 2024)
                   /\ y = 2024 => (t = 0 /\ \A k \in 2..8 : result.ret[k][i] = 0)
                   /\ y < 2024 => t < 0
                   /\ y > 2024 => t > 0

\* C7 witness: a range that starts before 2024 and runs past it, with a cost
\* after 2024 and none in 2024
C7_Witness ==
    /\ Returned
    /\ StartYear < 2024
    /\ EndYear > 2024
    /\ \E i \in 1..Len(years) : years[i] = 2024 /\ result.ret[3][i] = 0
    /\ \E i \in 1..Len(years) : years[i] > 2024 /\ result.ret[3][i] > 0
    /\ result.temperature[1] < 0

\* the runs of the script, recomputed from DEFAULTS
SelectedRun == calculate_additional_outcomes_and_costs(DEFAULTS)
WorstCaseRun == calculate_additional_outcomes_and_costs(WorstCaseRequest(DEFAULTS))
ZeroAdaptationRun == calculate_additional_outcomes_and_costs(ZeroAdaptationRequest(DEFAULTS))
Done == preview.status = "done"

\* C3 (as claimed): both prevented series subtract the selected run's uncapped
\* additional_outcomes from the other run's uncapped additional_outcomes.
C3_PreventedFromUncapped ==
    Done =>
        LET selected == SelectedRun.ret[4]
            worst == WorstCaseRun.ret[4]
            zero == ZeroAdaptationRun.ret[4]
        IN  /\ Len(preview.mitigation_prevented) = Len(preview.sy)
            /\ Len(preview.adaptation_prevented) = Len(preview.sy)
            /\ \A i \in 1..Len(preview.sy) :
                   /\ preview.mitigation_prevented[i] = worst[i] - selected[i]
                   /\ preview.adaptation_prevented[i] = zero[i] - selected[i]

\* C3 (amended): both prevented series subtract the selected run's
\* adaptation-adjusted effective series; mitigation_prevented subtracts it from
\* the worst-case run's uncapped additional_outcomes and adaptation_prevented
\* from the zero-adaptation run's effective series.
C3_PreventedFromEffective ==
    Done =>
        LET selected == SelectedRun.ret[2]
            worst == WorstCaseRun.ret[4]
            zero == ZeroAdaptationRun.ret[2]
        IN  /\ Len(preview.mitigation_prevented) = Len(preview.sy)
            /\ Len(preview.adaptation_prevented) = Len(preview.sy)
            /\ \A i \in 1..Len(preview.sy) :
                   /\ preview.mitigation_prevented[i] = worst[i] - selected[i]
                   /\ preview.adaptation_prevented[i] = zero[i] - selected[i]

\* C3 witness: the script ran with 50% adaptation and a year where adaptation
\* prevents cases, which the uncapped difference would report as none
C3_Witness ==
    /\ Done
    /\ DEFAULTS.adaptation_effectiveness = 50
    /\ \E i \in 1..Len(preview.sy) :
           /\ preview.adaptation_prevented[i] > 0
           /\ ZeroAdaptationRun.ret[4][i] - SelectedRun.ret[4][i] = 0
           /\ preview.mitigation_prevented[i] > preview.adaptation_prevented[i]

\* C10 (as claimed): the three monetary indicators are the exact sums of their
\* yearly series.
C10_MoneyIsExactSum ==
    Done =>
        /\ preview.total_cost = Sum(preview.costs)
        /\ preview.total_mitigation_savings = Sum(preview.mitigation_savings)
        /\ preview.total_adaptation_savings = Sum(preview.adaptation_savings)

\* n is the sum rounded once to a multiple of unit
RoundedOnce(n, sum, unit) == n % unit = 0 /\ 2 * Abs(n - sum) <= unit

\* C10 (amended): each monetary indicator is the sum of its unrounded yearly
\* series rounded once to two decimal places, and each case-count indicator is
\* the sum of its unrounded yearly series rounded once to an integer.
C10_TotalsRoundedOnce ==
    Done =>
        LET selected == SelectedRun.ret
        IN
        /\ RoundedOnce(preview.total_cost, Sum(selected[3]), MONEY \div 100)
        /\ RoundedOnce(preview.total_mitigation_savings,
                       Sum(preview.mitigation_savings), MONEY \div 100)
        /\ RoundedOnce(preview.total_adaptation_savings,
                       Sum(preview.adaptation_savings), MONEY \div 100)
        /\ preview.mitigation_savings = ZipSub(WorstCaseRun.ret[3], selected[3])
        /\ preview.adaptation_savings = ZipSub(ZeroAdaptationRun.ret[3], selected[3])
        /\ RoundedOnce(FromInt(preview.total_additional_outcomes),
                       Sum(selected[2]), SCALE)
        /\ RoundedOnce(FromInt(preview.total_mitigation_prevented),
                       Sum(preview.mitigation_prevented), SCALE)
        /\ RoundedOnce(FromInt(preview.total_adaptation_prevented),
                       Sum(preview.adaptation_prevented), SCALE)

\* C10 witness: the script ran, rounding to two decimals changed its nonzero
\* total cost and savings, and its case count is a nonzero total that rounding
\* the years one by one would not give
C10_Witness ==
    /\ Done
    /\ preview.total_cost # 0
    /\ preview.total_cost # Sum(preview.costs)
    /\ preview.total_mitigation_savings # Sum(preview.mitigation_savings)
    /\ preview.total_additional_outcomes # 0
    /\ preview.total_additional_outcomes #
           Sum([i \in 1..Len(preview.sy) |-> Round0(preview.eff_add_outcomes[i])])

=============================================================================
